---- MODULE Spec2Model ----
(***************************************************************************)
(* A model of src/main.py: the scalar Kalman filter of DataStream, the     *)
(* Julian-Day-to-calendar conversion, and the series builder that drives   *)
(* both.  Python floats are IEEE 754 binary64 values; they are modelled    *)
(* bit-exactly (53-bit significand, round-to-nearest-even, gradual         *)
(* underflow, overflow to infinity, NaN).  TLC's integers are 32 bits      *)
(* wide, so significands are kept as little-endian sequences of base-2^14  *)
(* digits.                                                                 *)
(***************************************************************************)
EXTENDS Integers, Sequences, FiniteSets, TLC

(***************************************************************************)
(* Natural numbers of any size: little-endian digit sequences, no leading  *)
(* zero digit, zero is the empty sequence.                                 *)
(***************************************************************************)
\* The digit operations are written with quantifiers rather than recursion over
\* the digits: TLC evaluates them at a fixed, small stack depth.
LimbBits == 14
Base == 2^LimbBits

\* The element of a one-element set.  The({e : v \in {d}}) is e with v standing
\* for the value of d: d is computed once, however often e uses v (TLC may
\* compute a LET definition or an operator's argument anew at each use).
The(S) == CHOOSE r \in S : TRUE

Max(a, b) == IF a >= b THEN a ELSE b
Min(a, b) == IF a <= b THEN a ELSE b

Digit(a, i) == IF i >= 1 /\ i <= Len(a) THEN a[i] ELSE 0

\* the digits f[1..n] as a tuple
Digits(f, n) == SubSeq(f, 1, n)

\* a digit sequence without its leading (last) zero digits
BNorm(a0) ==
  The({ (IF \A i \in 1..Len(a) : a[i] = 0 THEN <<>>
         ELSE SubSeq(a, 1, CHOOSE i \in 1..Len(a) :
                              a[i] # 0 /\ \A k \in (i + 1)..Len(a) : a[k] = 0))
        : a \in {a0} })

\* 0 <= n < 2^31
BFromInt(n) ==
  The({ BNorm(<<k % Base, (k \div Base) % Base, k \div (Base * Base)>>) : k \in {n} })

\* a < 2^31
BToInt(a0) ==
  The({ Digit(a, 1) + Base * Digit(a, 2) + Base * Base * Digit(a, 3) : a \in {a0} })

\* the carry into digit i of a + b
Carry(a, b, i) ==
  \E j \in 1..(i - 1) :
     /\ Digit(a, j) + Digit(b, j) >= Base
     /\ \A k \in (j + 1)..(i - 1) : Digit(a, k) + Digit(b, k) = Base - 1

BAdd(a0, b0) ==
  The({ BNorm(Digits([i \in 1..(Max(Len(a), Len(b)) + 1) |->
                 (Digit(a, i) + Digit(b, i) + (IF Carry(a, b, i) THEN 1 ELSE 0)) % Base],
               Max(Len(a), Len(b)) + 1))
        : a \in {a0}, b \in {b0} })

\* the borrow from digit i of a - b
Borrow(a, b, i) ==
  \E j \in 1..(i - 1) :
     /\ Digit(a, j) < Digit(b, j)
     /\ \A k \in (j + 1)..(i - 1) : Digit(a, k) = Digit(b, k)

\* a - b for a >= b
BSub(a0, b0) ==
  The({ BNorm(Digits([i \in 1..Len(a) |->
                 (Digit(a, i) - Digit(b, i) - (IF Borrow(a, b, i) THEN 1 ELSE 0) + Base) % Base],
               Len(a)))
        : a \in {a0}, b \in {b0} })

\* -1, 0, 1 as a < b, a = b, a > b
BCmp(a0, b0) ==
  The({ (IF Len(a) < Len(b) THEN -1
         ELSE IF Len(a) > Len(b) THEN 1
         ELSE IF \A i \in 1..Len(a) : a[i] = b[i] THEN 0
         ELSE IF \E i \in 1..Len(a) :
                    a[i] < b[i] /\ \A k \in (i + 1)..Len(a) : a[k] = b[k] THEN -1
         ELSE 1)
        : a \in {a0}, b \in {b0} })

Zeros(n) == The({ Digits([i \in 1..k |-> 0], k) : k \in {n} })

\* a * Base^n
BShiftLimbs(a0, n) == The({ (IF a = <<>> THEN a ELSE Zeros(n) \o a) : a \in {a0} })

\* a * d for a digit d: the low and the high halves of the digit products
BMulSmall(a0, d0) ==
  The({ BAdd(BNorm(Digits([i \in 1..Len(a) |-> (a[i] * d) % Base], Len(a))),
             BShiftLimbs(BNorm(Digits([i \in 1..Len(a) |-> (a[i] * d) \div Base], Len(a))), 1))
        : a \in {a0}, d \in {d0} })

RECURSIVE BMulFrom(_, _, _)
BMulFrom(a, b, j) ==
  IF j > Len(b) THEN <<>>
  ELSE BAdd(BShiftLimbs(BMulSmall(a, b[j]), j - 1), BMulFrom(a, b, j + 1))

BMul(a0, b0) == The({ BMulFrom(a, b, 1) : a \in {a0}, b \in {b0} })

\* a * 2^n
BShl(a0, n) ==
  The({ The({ BShiftLimbs(BNorm(Digits([i \in 1..(Len(a) + 1) |->
                              ((Digit(a, i) * s) % Base) + ((Digit(a, i - 1) * s) \div Base)],
                            Len(a) + 1)),
                          k \div LimbBits)
              : s \in {2^(k % LimbBits)} })
        : a \in {a0}, k \in {n} })

\* floor(a / 2^n)
BShr(a0, n) ==
  The({ The({ (IF w >= Len(a) THEN <<>>
               ELSE BNorm(Digits([i \in 1..(Len(a) - w) |->
                             (a[i + w] \div s) + ((Digit(a, i + w + 1) % s) * (Base \div s))],
                           Len(a) - w)))
              : w \in {k \div LimbBits}, s \in {2^(k % LimbBits)} })
        : a \in {a0}, k \in {n} })

\* the number of bits of a digit
IntBitLen(n) ==
  The({ (CHOOSE b \in 0..LimbBits : k < 2^b /\ (b = 0 \/ k >= 2^(b - 1))) : k \in {n} })

BBitLen(a0) ==
  The({ (IF a = <<>> THEN 0 ELSE LimbBits * (Len(a) - 1) + IntBitLen(a[Len(a)]))
        : a \in {a0} })

BOdd(a0) == \E a \in {a0} : a # <<>> /\ a[1] % 2 = 1

\* floor(r / d) for r < d * Base and a divisor d whose top digit is at least
\* Base / 2: the estimate from the top digits is at most 2 too large
QDigit(r0, d0) ==
  The({ The({ (IF BCmp(BMulSmall(d, qhat), r) <= 0 THEN qhat
               ELSE IF BCmp(BMulSmall(d, qhat - 1), r) <= 0 THEN qhat - 1
               ELSE qhat - 2)
              : qhat \in {Min(Base - 1,
                              (Digit(r, Len(d) + 1) * Base + Digit(r, Len(d))) \div d[Len(d)])} })
        : r \in {r0}, d \in {d0} })

\* Long division of n by such a d, one digit of n at a time from digit i down;
\* q holds the quotient digits found so far and r the remainder:
\* <<quotient, remainder>>
RECURSIVE BDivModR(_, _, _, _, _)
BDivModR(n, d, i, q, r) ==
  IF i = 0 THEN <<q, r>>
  ELSE The({ The({ The({ BDivModR(n, d, k, <<qd>> \o q, r2)
                         : r2 \in {BSub(r1, BMulSmall(d, qd))} })
                   : qd \in {QDigit(r1, d)} })
             : r1 \in {BNorm(<<n[i]>> \o r)}, k \in {i - 1} })

\* <<floor(n / d), n mod d>> for d > 0
BDivMod(n0, d0) ==
  The({ The({ The({ The({ <<BNorm(qr[1]), BShr(qr[2], sh)>>
                          \* the top Len(dd) - 1 digits of nn are below dd: they
                          \* start the remainder
                          : qr \in {BDivModR(nn, dd, i0, <<>>,
                                             BNorm(SubSeq(nn, i0 + 1, Len(nn))))} })
                    : i0 \in {Max(0, Len(nn) - (Len(dd) - 1))} })
              : nn \in {BShl(n, sh)}, dd \in {BShl(d, sh)} })
        : n \in {n0}, d \in {d0}, sh \in {LimbBits - IntBitLen(d0[Len(d0)])} })

(***************************************************************************)
(* Python float: IEEE 754 binary64.  A finite value is                     *)
(* (-1)^s * m * 2^e with m < 2^53, and m >= 2^52 unless e = Emin           *)
(* (subnormals and zero), so that equal values have equal records.         *)
(***************************************************************************)
Precision == 53
Emin == 0 - 1074
Emax == 971

NaN == [k |-> "nan", s |-> 0, m |-> <<>>, e |-> 0]
Inf(s) == [k |-> "inf", s |-> s, m |-> <<>>, e |-> 0]
Fin(s, m, e) == [k |-> "fin", s |-> s, m |-> m, e |-> e]
Zero(s) == Fin(s, <<>>, Emin)

IsNaN(a) == a.k = "nan"
IsInf(a) == a.k = "inf"
IsFinite(a) == a.k = "fin"
IsZero(a) == \E f \in {a} : f.k = "fin" /\ f.m = <<>>

\* q = floor(m / 2^sh) is rounded up: the part of m cut off is more than half
\* a unit, or just half and q is odd (or something lies beyond m)
RoundsUp(m, q, sh, sticky) ==
  \E c \in {BCmp(BSub(m, BShl(q, sh)), BShl(<<1>>, sh - 1))} :
     c > 0 \/ (c = 0 /\ (sticky \/ BOdd(q)))

\* The float nearest to (-1)^s * (m + t) * 2^e, ties to even, where t = 0, or
\* 0 < t < 1 when sticky (then m has more than Precision + 1 bits).
RoundPack(s0, m0, e0, sticky0) ==
  The({ (IF m = <<>> THEN Zero(s)
         ELSE The({ (LET e2 == Max(e + L - Precision, Emin)
                         sh == e2 - e
                     IN  IF sh <= 0
                         THEN (IF e2 > Emax THEN Inf(s) ELSE Fin(s, BShl(m, 0 - sh), e2))
                         ELSE IF sh > L THEN Zero(s)   \* below half the least subnormal
                         ELSE The({ The({ (LET over == BBitLen(q2) > Precision
                                               q3   == IF over THEN BShr(q2, 1) ELSE q2
                                               e3   == IF over THEN e2 + 1 ELSE e2
                                           IN  IF e3 > Emax THEN Inf(s) ELSE Fin(s, q3, e3))
                                          : q2 \in {IF RoundsUp(m, q, sh, sticky)
                                                    THEN BAdd(q, <<1>>) ELSE q} })
                                    : q \in {BShr(m, sh)} }))
                    : L \in {BBitLen(m)} }))
        : s \in {s0}, m \in {m0}, e \in {e0}, sticky \in {sticky0} })

\* int -> float (exact for |n| < 2^53)
FromInt(n) ==
  The({ RoundPack(IF k < 0 THEN 1 ELSE 0, BFromInt(IF k < 0 THEN 0 - k ELSE k), 0, FALSE)
        : k \in {n} })

FNeg(a0) == The({ (IF IsNaN(a) THEN a ELSE [a EXCEPT !.s = 1 - a.s]) : a \in {a0} })

\* -1, 0, 1 comparing the magnitudes of two finite floats
MagCmp(a, b) ==
  IF a.m = <<>> \/ b.m = <<>> THEN BCmp(a.m, b.m)
  ELSE IF a.e < b.e THEN -1
  ELSE IF a.e > b.e THEN 1
  ELSE BCmp(a.m, b.m)

\* -1, 0, 1 comparing two floats, neither NaN
FCmp(a0, b0) ==
  The({ (LET sa == IF IsZero(a) THEN 0 ELSE a.s
             sb == IF IsZero(b) THEN 0 ELSE b.s
             mag == IF IsInf(a) THEN (IF IsInf(b) THEN 0 ELSE 1)
                    ELSE IF IsInf(b) THEN -1
                    ELSE MagCmp(a, b)
         IN  IF IsZero(a) /\ IsZero(b) THEN 0
             ELSE IF sa # sb THEN (IF IsZero(a) THEN (IF sb = 1 THEN 1 ELSE -1)
                                   ELSE IF sa = 1 THEN -1 ELSE 1)
             ELSE IF sa = 1 THEN 0 - mag ELSE mag)
        : a \in {a0}, b \in {b0} })

\* Python's ==, <, <=, >, >= on floats: False as soon as one side is NaN
FEq(a0, b0) == \E a \in {a0}, b \in {b0} : ~IsNaN(a) /\ ~IsNaN(b) /\ FCmp(a, b) = 0
FLt(a0, b0) == \E a \in {a0}, b \in {b0} : ~IsNaN(a) /\ ~IsNaN(b) /\ FCmp(a, b) < 0
FLe(a0, b0) == \E a \in {a0}, b \in {b0} : ~IsNaN(a) /\ ~IsNaN(b) /\ FCmp(a, b) <= 0
FGt(a, b) == FLt(b, a)
FGe(a, b) == FLe(b, a)

\* When the magnitude of one finite operand lies wholly more than Guard bits
\* below the last place of the other, the sum rounds to the other operand.
Guard == 8

\* a + b for finite nonzero a and b
FAddFinite(a, b) ==
  IF a.e - (b.e + BBitLen(b.m)) > Guard THEN a
  ELSE IF b.e - (a.e + BBitLen(a.m)) > Guard THEN b
  ELSE The({ (IF a.s = b.s THEN RoundPack(a.s, BAdd(ma, mb), e, FALSE)
              ELSE IF c = 0 THEN Zero(0)
              ELSE IF c > 0 THEN RoundPack(a.s, BSub(ma, mb), e, FALSE)
              ELSE RoundPack(b.s, BSub(mb, ma), e, FALSE))
             : e \in {Min(a.e, b.e)},
               ma \in {BShl(a.m, a.e - Min(a.e, b.e))},
               mb \in {BShl(b.m, b.e - Min(a.e, b.e))},
               c \in {BCmp(BShl(a.m, a.e - Min(a.e, b.e)), BShl(b.m, b.e - Min(a.e, b.e)))} })

FAdd(a0, b0) ==
  The({ (IF IsNaN(a) \/ IsNaN(b) THEN NaN
         ELSE IF IsInf(a) THEN (IF IsInf(b) /\ a.s # b.s THEN NaN ELSE a)
         ELSE IF IsInf(b) THEN b
         ELSE IF IsZero(a) /\ IsZero(b) THEN Zero(IF a.s = 1 /\ b.s = 1 THEN 1 ELSE 0)
         ELSE IF IsZero(a) THEN b
         ELSE IF IsZero(b) THEN a
         ELSE FAddFinite(a, b))
        : a \in {a0}, b \in {b0} })

FSub(a, b) == FAdd(a, FNeg(b))

FMul(a0, b0) ==
  The({ (LET s == (a.s + b.s) % 2
         IN  IF IsNaN(a) \/ IsNaN(b) THEN NaN
             ELSE IF IsInf(a) \/ IsInf(b)
                  THEN (IF IsZero(a) \/ IsZero(b) THEN NaN ELSE Inf(s))
             ELSE IF IsZero(a) \/ IsZero(b) THEN Zero(s)
             ELSE RoundPack(s, BMul(a.m, b.m), a.e + b.e, FALSE))
        : a \in {a0}, b \in {b0} })

\* a / b for b # 0 (Python raises ZeroDivisionError on a zero divisor; every
\* divisor of the program is a nonzero constant or pred_cov + Q)
FDiv(a0, b0) ==
  The({ (LET s == (a.s + b.s) % 2
         IN  IF IsNaN(a) \/ IsNaN(b) THEN NaN
             ELSE IF IsInf(a) THEN (IF IsInf(b) THEN NaN ELSE Inf(s))
             ELSE IF IsInf(b) THEN Zero(s)
             ELSE IF IsZero(a) THEN Zero(s)
             ELSE The({ The({ RoundPack(s, qr[1], a.e - b.e - k, qr[2] # <<>>)
                              : qr \in {BDivMod(BShl(a.m, k), b.m)} })
                        : k \in {Max(0, Precision + 3 + BBitLen(b.m) - BBitLen(a.m))} }))
        : a \in {a0}, b \in {b0} })

\* The float a decimal literal n / 10^k denotes (n and 10^k below 2^31)
Dec(n, k) == FDiv(FromInt(n), FromInt(10^k))

\* The float the decimal string "<i>.<f>" with k fraction digits denotes
DecBig(i, f, k) ==
  The({ The({ The({ RoundPack(0, qr[1], 0 - p, qr[2] # <<>>)
                    : qr \in {BDivMod(BShl(n, p), d)} })
              : n \in {BAdd(BMul(BFromInt(i), d), BFromInt(f))},
                p \in {Precision + 3 + BBitLen(d)} })
        : d \in {BFromInt(10^k)} })

\* math.modf on a finite float: <<fractional part, integer part>>, both floats
\* with the sign of a
Modf(a0) ==
  The({ (IF a.e >= 0 \/ IsZero(a) THEN <<Zero(a.s), a>>
         ELSE The({ <<RoundPack(a.s, BSub(a.m, BShl(ip, 0 - a.e)), a.e, FALSE),
                      RoundPack(a.s, ip, 0, FALSE)>>
                    : ip \in {BShr(a.m, 0 - a.e)} }))
        : a \in {a0} })

\* math.trunc / int() on a finite float of magnitude below 2^31
Trunc(a0) ==
  The({ The({ (IF a.s = 1 THEN 0 - n ELSE n)
              : n \in {IF a.e >= 0 THEN BToInt(BShl(a.m, a.e))
                       ELSE BToInt(BShr(a.m, 0 - a.e))} })
        : a \in {a0} })

\* round() on a finite float of magnitude below 2^31: nearest int, ties to even
PyRound(a0) ==
  The({ (IF a.e >= 0 THEN Trunc(a)
         ELSE The({ The({ (IF a.s = 1 THEN 0 - n ELSE n)
                          : n \in {BToInt(q) + (IF RoundsUp(a.m, q, 0 - a.e, FALSE)
                                                THEN 1 ELSE 0)} })
                    : q \in {BShr(a.m, 0 - a.e)} }))
        : a \in {a0} })

(***************************************************************************)
(* The program state.  x, cov, data_stream are the fields of the one       *)
(* DataStream object; the other variables record the last call of each     *)
(* method, for the properties to refer to.                                 *)
(***************************************************************************)
VARIABLES
  x,            \* DataStream.x: the estimate, NaN until the first call
  cov,          \* DataStream.cov: the estimate's covariance
  data_stream,  \* DataStream.data_stream: the series load_data built
  file,         \* the lines of the file file_name names
  calls,        \* number of kalman_filter calls so far
  meas,         \* the measurement of the last kalman_filter call
  ret,          \* what the last kalman_filter call returned
  prev_x,       \* x before the last kalman_filter call
  prev_cov,     \* cov before the last kalman_filter call
  nan_fed,      \* some kalman_filter call so far was given NaN
  same,         \* every kalman_filter call so far was given the same measurement
  jd,           \* the argument of the last jd_to_datetime call
  dt,           \* the fields the last jd_to_datetime call gave datetime()
  prev_jd,      \* the argument of the jd_to_datetime call before
  prev_dt,      \* the fields that call gave datetime()
  jd_calls,     \* number of jd_to_datetime calls so far
  last_op,      \* the last DataStream method called from outside
  err,          \* the exception that call raised, "none" when it returned
  loads         \* number of load_data calls so far

vars == <<x, cov, data_stream, file, calls, meas, ret, prev_x, prev_cov, nan_fed,
          same, jd, dt, prev_jd, prev_dt, jd_calls, last_op, err, loads>>

filter_vars == <<x, cov, calls, meas, ret, prev_x, prev_cov, nan_fed, same>>
jd_vars == <<jd, dt, prev_jd, prev_dt, jd_calls>>
series_vars == <<data_stream, file, last_op, err, loads>>

(***************************************************************************)
(* Module constants and the fields __init__ sets.                          *)
(***************************************************************************)
FILTER_R == Dec(2, 3)      \* 0.002
FILTER_Q == Dec(1, 1)      \* 0.1
TIME_CRT == Zero(0)        \* 0.000

A == 1
B == 0
C == 1
R == FILTER_R
Q == FILTER_Q

\* Python converts an int operand to float before it meets a float, and
\* int / int is true division
fA == FromInt(A)
fB == FromInt(B)
fC == FromInt(C)
InvC == FDiv(FromInt(1), FromInt(C))           \* (1 / self.C)
fOne == FromInt(1)
fZero == Zero(0)

(***************************************************************************)
(* kalman_filter(measurement) on a filter in state (x, cov): the new x and *)
(* cov; the call returns the new x.                                        *)
(***************************************************************************)
\* KalmanInit with R where the code has Q
KalmanInitR(measurement) ==
  [x   |-> FMul(InvC, measurement),
   cov |-> FMul(FMul(InvC, R), InvC)]

KalmanInit(measurement) ==
  [x   |-> FMul(InvC, measurement),
   cov |-> FMul(FMul(InvC, Q), InvC)]

\* KalmanPredictCov without the process noise R
KalmanPredictCovNoR(scov) == FMul(FMul(fA, scov), fA)

KalmanPredictCov(scov) == FAdd(FMul(FMul(fA, scov), fA), R)

\* Kalman Gain
KalmanGain(pred_cov) ==
  The({ FMul(FMul(p, fC), FDiv(fOne, FAdd(FMul(FMul(fC, p), fC), Q)))
        : p \in {pred_cov} })

\* KalmanCorrectX with the correction subtracted
KalmanCorrectXMinus(pred_x, k, measurement) ==
  The({ FSub(p, FMul(k, FSub(measurement, FMul(fC, p)))) : p \in {pred_x} })

\* KalmanCorrectCov with the operands of the subtraction exchanged
KalmanCorrectCovSwapped(pred_cov, k) ==
  The({ FSub(FMul(FMul(k, fC), p), p) : p \in {pred_cov} })

\* Correction
KalmanCorrectX(pred_x, k, measurement) ==
  The({ FAdd(p, FMul(k, FSub(measurement, FMul(fC, p)))) : p \in {pred_x} })

KalmanCorrectCov(pred_cov, k) ==
  The({ FSub(p, FMul(FMul(k, fC), p)) : p \in {pred_cov} })

KalmanUpdate(sx, scov, measurement) ==
  The({ The({ [x   |-> KalmanCorrectX(pred_x, k, measurement),
               cov |-> KalmanCorrectCov(pred_cov, k)]
              : k \in {KalmanGain(pred_cov)} })
        : u \in {0},
          pred_x \in {FAdd(FMul(fA, sx), FromInt(B * 0))},
          pred_cov \in {KalmanPredictCov(scov)} })

\* kalman_filter taking the filter for initialised once cov is set
kalman_filter_by_cov(sx, scov, measurement) ==
  IF IsNaN(scov) THEN KalmanInit(measurement)
  ELSE KalmanUpdate(sx, scov, measurement)

kalman_filter(sx, scov, measurement) ==
  The({ (IF IsNaN(est) THEN KalmanInit(measurement)
         ELSE KalmanUpdate(est, scov, measurement))
        : est \in {sx} })

(***************************************************************************)
(* jd_to_datetime(jd): the seven fields handed to datetime.datetime().     *)
(***************************************************************************)
Half == Dec(5, 1)                   \* 0.5
C1867216_25 == Dec(186721625, 2)    \* 1867216.25
C36524_25 == Dec(3652425, 2)        \* 36524.25
Four == Dec(4, 0)                   \* 4.
C122_1 == Dec(1221, 1)              \* 122.1
C365_25 == Dec(36525, 2)            \* 365.25
C30_6001 == Dec(306001, 4)          \* 30.6001
C13_5 == Dec(135, 1)                \* 13.5
C2_5 == Dec(25, 1)                  \* 2.5
C24 == Dec(24, 0)                   \* 24.
C60 == Dec(60, 0)                   \* 60.
C1e6 == FromInt(10^6)               \* 1.e6
GregorianStart == 2299160

\* JdB without the 1 of I + 1 + A - trunc(A / 4.)
JdBNoOne(I0) ==
  The({ The({ (IF I > GregorianStart
               THEN I + Aj - Trunc(FDiv(FromInt(Aj), Four))
               ELSE I)
              : Aj \in {Trunc(FDiv(FSub(FromInt(I), C1867216_25), C36524_25))} })
        : I \in {I0} })

\* JdB with I >= 2299160 where the code has I > 2299160
JdBFromStart(I0) ==
  The({ The({ (IF I >= GregorianStart
               THEN I + 1 + Aj - Trunc(FDiv(FromInt(Aj), Four))
               ELSE I)
              : Aj \in {Trunc(FDiv(FSub(FromInt(I), C1867216_25), C36524_25))} })
        : I \in {I0} })

\* B of the code: the day number with the Gregorian correction applied
JdB(I0) ==
  The({ The({ (IF I > GregorianStart
               THEN I + 1 + Aj - Trunc(FDiv(FromInt(Aj), Four))
               ELSE I)
              : Aj \in {Trunc(FDiv(FSub(FromInt(I), C1867216_25), C36524_25))} })
        : I \in {I0} })

\* year, month and the day with its fraction, from B and F
JdDate(Bj, F) ==
  The({ The({ The({ The({ The({
      [year  |-> IF FGt(FromInt(month), C2_5) THEN D - 4716 ELSE D - 4715,
       month |-> month,
       day   |-> FSub(FAdd(FromInt(Cj - E), F),
                      FromInt(Trunc(FMul(C30_6001, FromInt(G)))))]
      : month \in {IF FLt(FromInt(G), C13_5) THEN G - 1 ELSE G - 13} })
      : G \in {Trunc(FDiv(FromInt(Cj - E), C30_6001))} })
      : E \in {Trunc(FMul(C365_25, FromInt(D)))} })
      : D \in {Trunc(FDiv(FSub(FromInt(Cj), C122_1), C365_25))} })
      : Cj \in {Bj + 1524} })

\* hour, minute, second, microsecond from the fraction of the day
JdTime(frac_days) ==
  The({ The({ The({
      [hour |-> Trunc(hours[2]), minute |-> Trunc(mins[2]),
       second |-> Trunc(secs[2]),
       microsecond |-> PyRound(FMul(secs[1], C1e6))]
      : secs \in {Modf(FMul(mins[1], C60))} })
      : mins \in {Modf(FMul(hours[1], C60))} })
      : hours \in {Modf(FMul(frac_days, C24))} })

jd_to_datetime(j) ==
  The({ The({ The({ The({
      [year |-> ymd.year, month |-> ymd.month, day |-> Trunc(dm[2]),
       hour |-> hms.hour, minute |-> hms.minute, second |-> hms.second,
       microsecond |-> hms.microsecond]
      : hms \in {JdTime(dm[1])} })
      : dm \in {Modf(ymd.day)} })
      : ymd \in {JdDate(JdB(Trunc(FI[2])), FI[1])} })
      : FI \in {Modf(FAdd(j, Half))} })

\* datetime.datetime(...) accepts the fields (it raises ValueError otherwise):
\* the proleptic Gregorian calendar, years MINYEAR..MAXYEAR
IsLeap(y) == y % 4 = 0 /\ (y % 100 # 0 \/ y % 400 = 0)
DaysInMonth(y, m) ==
  IF m = 2 THEN (IF IsLeap(y) THEN 29 ELSE 28)
  ELSE IF m \in {4, 6, 9, 11} THEN 30 ELSE 31
DatetimeOK(d) ==
  /\ d.year \in 1..9999
  /\ d.month \in 1..12
  /\ d.day >= 1 /\ d.day <= DaysInMonth(d.year, d.month)
  /\ d.hour \in 0..23
  /\ d.minute \in 0..59
  /\ d.second \in 0..59
  /\ d.microsecond \in 0..999999

(***************************************************************************)
(* Measurements the filter is fed: what float() gives for these tokens.    *)
(***************************************************************************)
Mag1 == Dec(0 - 9398, 5)                     \* "-0.09398"
Mag2 == Dec(0 - 9350, 5)                     \* "-0.09350"
\* the float next to Mag1 towards zero
Mag1Next == Fin(Mag1.s, BSub(Mag1.m, <<1>>), Mag1.e)
Huge == Fin(0, BSub(BShl(<<1>>, Precision), <<1>>), Emax)   \* "1.7976931348623157e308"

FiniteMeasurements == {Mag1, Mag2, Mag1Next, Huge, FNeg(Huge)}
Measurements == FiniteMeasurements \cup {NaN, Inf(0)}

MaxCalls == 3

(***************************************************************************)
(* The state after DataStream(file_name), with f the lines of the file.    *)
(***************************************************************************)
Constructed(f) ==
  /\ x = NaN
  /\ cov = NaN
  /\ data_stream = <<>>
  /\ file = f
  /\ calls = 0
  /\ meas = NaN
  /\ ret = NaN
  /\ prev_x = NaN
  /\ prev_cov = NaN
  /\ nan_fed = FALSE
  /\ same = TRUE
  /\ jd = NaN
  /\ dt = <<>>
  /\ prev_jd = NaN
  /\ prev_dt = <<>>
  /\ jd_calls = 0
  /\ last_op = "init"
  /\ err = "none"
  /\ loads = 0

Init == Constructed(<<>>)

\* One call kalman_filter(measurement) from outside
KalmanFilter(measurement) ==
  \E n \in {kalman_filter(x, cov, measurement)} :
      /\ x' = n.x
      /\ cov' = n.cov
      /\ ret' = n.x
      /\ meas' = measurement
      /\ prev_x' = x
      /\ prev_cov' = cov
      /\ calls' = calls + 1
      /\ nan_fed' = (nan_fed \/ IsNaN(measurement))
      /\ same' = (same /\ (calls = 0 \/ measurement = meas))
      /\ last_op' = "kalman_filter"
      /\ err' = "none"
      /\ UNCHANGED jd_vars
      /\ UNCHANGED <<data_stream, file, loads>>

Filter ==
  /\ calls < MaxCalls
  /\ \E measurement \in Measurements : KalmanFilter(measurement)

Next == Filter

Spec == Init /\ [][Next]_vars

\* C1: the first kalman_filter call on a freshly constructed DataStream, given
\* any finite m, returns exactly m, leaves x = m and sets cov = FILTER_Q.
C1_FirstCall ==
  (calls = 1 /\ IsFinite(meas)) => (ret = meas /\ x = meas /\ cov = FILTER_Q)

C1_Witness == calls = 1 /\ meas = Mag1 /\ ret = Mag1 /\ cov = FILTER_Q

\* lo <= v <= hi, and lo < v < hi, whichever of a and b is the smaller
Between(v, a, b) == (FLe(a, v) /\ FLe(v, b)) \/ (FLe(b, v) /\ FLe(v, a))
StrictlyBetween(v, a, b) == (FLt(a, v) /\ FLt(v, b)) \/ (FLt(b, v) /\ FLt(v, a))

\* C5 as stated: on every call after the first the returned estimate lies
\* strictly between the previous estimate and the measurement when they differ,
\* and equals them when they coincide (here only for calls whose innovation
\* measurement - C * x does not overflow).
C5_StrictlyBetween ==
  (calls >= 2 /\ IsFinite(prev_x) /\ IsFinite(meas)
     /\ IsFinite(FSub(meas, FMul(fC, prev_x)))) =>
     IF FEq(prev_x, meas) THEN FEq(ret, meas)
     ELSE StrictlyBetween(ret, prev_x, meas)

\* C5 amended: on every call after the first whose innovation
\* measurement - C * x is finite, the returned estimate lies between the
\* previous estimate and the measurement, the two included, and equals them when
\* they coincide; fed -0.09398 and then -0.09350, the first call returns
\* -0.09398 and the second a value strictly between the two.
C5_Between ==
  /\ (calls >= 2 /\ IsFinite(prev_x) /\ IsFinite(meas)
        /\ IsFinite(FSub(meas, FMul(fC, prev_x)))) =>
       /\ Between(ret, prev_x, meas)
       /\ FEq(prev_x, meas) => FEq(ret, meas)
  /\ (calls = 1 /\ meas = Mag1) => ret = Mag1
  /\ (calls = 2 /\ prev_x = Mag1 /\ meas = Mag2) => StrictlyBetween(ret, Mag1, Mag2)

C5_Witness ==
  calls = 2 /\ prev_x = Mag1 /\ meas = Mag2 /\ FLt(Mag1, ret) /\ FLt(ret, Mag2)

\* C9 as stated: once kalman_filter has been given NaN, every later call
\* returns a non-finite estimate.
C9_Contaminated == nan_fed => ~IsFinite(ret)

\* C9 amended: a call given NaN returns NaN and leaves x = NaN, without
\* raising; x = NaN is also the mark of a filter not yet initialised, so the
\* next call given a finite m starts the filter again: it returns exactly m and
\* sets cov = FILTER_Q.
C9_NaNRestarts ==
  /\ (calls >= 1 /\ IsNaN(meas)) => (IsNaN(ret) /\ IsNaN(x) /\ err = "none")
  /\ (calls >= 2 /\ IsNaN(prev_x) /\ IsFinite(meas)) =>
       (ret = meas /\ x = meas /\ cov = FILTER_Q /\ err = "none")

C9_Witness ==
  calls >= 2 /\ nan_fed /\ IsNaN(prev_x) /\ ~IsNaN(prev_cov) /\ meas = Mag2 /\ ret = Mag2

(***************************************************************************)
(* Long runs of the filter: the first MaxMixed calls are given any of      *)
(* RunMeasurements, each later call the measurement of the call before.    *)
(***************************************************************************)
RunMeasurements == {Mag1, Mag2, Huge}

MaxRun == 135
MaxMixed == 2

FeedSame ==
  /\ calls >= 1
  /\ calls < MaxRun
  /\ KalmanFilter(meas)

FeedOther ==
  /\ calls < MaxMixed
  /\ \E measurement \in RunMeasurements :
        /\ calls = 0 \/ measurement # meas
        /\ KalmanFilter(measurement)

NextRun == FeedSame \/ FeedOther

SpecRun == Init /\ [][NextRun]_vars

\* C2: whatever finite measurements kalman_filter is given, cov >= 0 after
\* every call.
C2_CovNonNegative == (calls >= 1 /\ ~nan_fed) => FGe(cov, fZero)

C2_Witness == calls >= 100 /\ ~same /\ IsFinite(x) /\ FGt(cov, fZero)

\* Exact products and sums of nonnegative finite floats, as m * 2^e
ExMul(a, b) == [m |-> BMul(a.m, b.m), e |-> a.e + b.e]
ExAdd(a, b) ==
  LET e == Min(a.e, b.e)
  IN  [m |-> BAdd(BShl(a.m, a.e - e), BShl(b.m, b.e - e)), e |-> e]
ExGt(a, b) ==
  LET e == Min(a.e, b.e)
  IN  BCmp(BShl(a.m, a.e - e), BShl(b.m, b.e - e)) > 0

\* c lies above the fixed point cov* of cov = ((cov + R) * Q) / (cov + R + Q):
\* c^2 + R * c - R * Q > 0, in exact arithmetic
AboveFixedPoint(c) ==
  /\ IsFinite(c) /\ c.s = 0
  /\ ExGt(ExAdd(ExMul(c, c), ExMul(R, c)), ExMul(R, Q))

\* C4 as stated: fed the same finite m again and again, the filter keeps x = m,
\* and from cov = Q each call strictly decreases cov while cov stays above cov*.
C4_StrictDecrease ==
  (same /\ calls >= 1) =>
     /\ x = meas /\ ret = meas
     /\ AboveFixedPoint(cov)
     /\ calls >= 2 => FLt(cov, prev_cov)

\* C4 amended: fed the same finite m again and again, the filter keeps x = m,
\* cov never increases and stays above cov*; cov starts at Q and a call may
\* leave it unchanged (in floating point the descent stops on a value above
\* cov*, where the update maps cov to itself).
C4_Converges ==
  (same /\ calls >= 1) =>
     /\ x = meas /\ ret = meas
     /\ AboveFixedPoint(cov)
     /\ calls = 1 => cov = FILTER_Q
     /\ calls >= 2 => FLe(cov, prev_cov)

C4_Witness ==
  same /\ calls >= 2 /\ x = Mag1 /\ cov = prev_cov /\ AboveFixedPoint(cov)

(***************************************************************************)
(* Calls of jd_to_datetime: the first on one of JdStarts, each later one   *)
(* on the Julian Day of the call before plus one of JdSteps.               *)
(***************************************************************************)
JdUlp == FDiv(Half, FromInt(2^30))     \* 2^-31: the gap between floats at 2^21..2^22

JdStarts ==
  { FromInt(2268990),               \* 1500-02-27 in the Julian calendar
    FromInt(2299159),               \* a day before the last Julian day number
    FromInt(2415078),               \* 1900-02-27
    FromInt(2451543),               \* 1999-12-30
    FromInt(2451602),               \* 2000-02-27
    FromInt(2488127),               \* 2100-02-27
    DecBig(2458126, 22243, 5),      \* "2458126.22243"
    DecBig(2458125, 601852, 9) }    \* "2458125.000601852"

JdSteps == {JdUlp, Half, FromInt(1), FromInt(30)}

MaxJdCalls == 4

\* One call jd_to_datetime(j) from outside: datetime.datetime() raises
\* ValueError on fields it does not accept
JdToDatetime(j) ==
  \E d \in {jd_to_datetime(j)} :
      /\ jd' = j
      /\ dt' = d
      /\ prev_jd' = jd
      /\ prev_dt' = dt
      /\ jd_calls' = jd_calls + 1
      /\ last_op' = "jd_to_datetime"
      /\ err' = IF DatetimeOK(d) THEN "none" ELSE "ValueError"
      /\ UNCHANGED filter_vars
      /\ UNCHANGED <<data_stream, file, loads>>

JdFirst ==
  /\ jd_calls = 0
  /\ \E j \in JdStarts : JdToDatetime(j)

JdLater ==
  /\ jd_calls >= 1
  /\ jd_calls < MaxJdCalls
  /\ \E step \in JdSteps : JdToDatetime(FAdd(jd, step))

NextJD == JdFirst \/ JdLater

SpecJD == Init /\ [][NextJD]_vars

\* The Gregorian calendar date of the day with Julian Day Number N (the day
\* that begins at noon of Julian Day N - 0.5), by days since 0000-03-01 in
\* 400-year eras: integer arithmetic only.
GregorianDate(N) ==
  LET z   == N - 1721120
      era == z \div 146097
      doe == z - era * 146097
      yoe == (doe - doe \div 1460 + doe \div 36524 - doe \div 146096) \div 365
      doy == doe - (365 * yoe + yoe \div 4 - yoe \div 100)
      mp  == (5 * doy + 2) \div 153
      m   == IF mp < 10 THEN mp + 3 ELSE mp - 9
  IN  [year  |-> yoe + era * 400 + (IF m <= 2 THEN 1 ELSE 0),
       month |-> m,
       day   |-> doy - (153 * mp + 2) \div 5 + 1]

\* the integer part of jd + 0.5, the I of the code
JdI(j) == Trunc(Modf(FAdd(j, Half))[2])

IsWhole(j) == IsFinite(j) /\ IsZero(Modf(j)[1])

\* C6: for a whole-number Julian Day N after the reform (N > 2299160),
\* jd_to_datetime(N) is the Gregorian date of day N at 12:00:00.000000; so
\* jd_to_datetime(2451545.0) is 2000-01-01T12:00:00.000000.
C6_Gregorian ==
  /\ (jd_calls >= 1 /\ IsWhole(jd) /\ Trunc(jd) > 2299160) =>
       \E g \in {GregorianDate(Trunc(jd))} :
          /\ dt = [year |-> g.year, month |-> g.month, day |-> g.day,
                   hour |-> 12, minute |-> 0, second |-> 0, microsecond |-> 0]
          /\ err = "none"
  /\ (jd_calls >= 1 /\ jd = FromInt(2451545)) =>
       dt = [year |-> 2000, month |-> 1, day |-> 1,
             hour |-> 12, minute |-> 0, second |-> 0, microsecond |-> 0]

C6_Witness ==
  /\ jd_calls >= 1 /\ jd = FromInt(2451545)
  /\ dt.year = 2000 /\ dt.month = 1 /\ dt.day = 1 /\ dt.hour = 12

\* a is not later than b: the seven fields compared in order
DtFields(d) == <<d.year, d.month, d.day, d.hour, d.minute, d.second, d.microsecond>>
LexLe(a, b) ==
  \/ a = b
  \/ \E i \in 1..7 : a[i] < b[i] /\ \A k \in 1..(i - 1) : a[k] = b[k]

\* C7: jd_to_datetime leaves the day number uncorrected (B = I) exactly when
\* the integer part I of jd + 0.5 is at most 2299160, so that I = 2299160 is
\* 1582-10-04 and I = 2299161 is 1582-10-15; and of two calls on jd1 < jd2 that
\* both return, the second timestamp is not earlier than the first.
C7_Threshold ==
  /\ jd_calls >= 1 =>
       \E I \in {JdI(jd)} :
          /\ (JdB(I) = I) <=> (I <= 2299160)
          /\ I = 2299160 => (dt.year = 1582 /\ dt.month = 10 /\ dt.day = 4)
          /\ I = 2299161 => (dt.year = 1582 /\ dt.month = 10 /\ dt.day = 15)
  /\ (jd_calls >= 2 /\ FLt(prev_jd, jd) /\ DatetimeOK(prev_dt) /\ DatetimeOK(dt)) =>
       LexLe(DtFields(prev_dt), DtFields(dt))

C7_Witness ==
  /\ jd_calls >= 2 /\ FLt(prev_jd, jd)
  /\ JdI(prev_jd) = 2299160 /\ JdI(jd) = 2299161
  /\ prev_dt.day = 4 /\ dt.day = 15 /\ dt.hour = 0

\* C8 as stated: whenever the year falls in datetime's range, the fields
\* jd_to_datetime hands to datetime.datetime() are valid and the call returns.
C8_Total ==
  (jd_calls >= 1 /\ dt.year \in 1..9999) => (DatetimeOK(dt) /\ err = "none")

(***************************************************************************)
(* The file and load_data.  A line of the file is a header (it contains    *)
(* 'JD') or three decimal tokens: timestamp, magnitude, error.  A token is *)
(* its sign, its integer part, and its fraction digits as a number with    *)
(* their count: Tok(TRUE, 0, 9398, 5) is "-0.09398".                       *)
(***************************************************************************)
Tok(neg, int, frac, digits) == [neg |-> neg, int |-> int, frac |-> frac, digits |-> digits]

HeaderLine == [kind |-> "header"]
RecordLine(ts, mag, dif) == [kind |-> "record", ts |-> ts, mag |-> mag, dif |-> dif]

\* the number of decimal digits of n < 10^9
NumDigits(n) == CHOOSE d \in 1..9 : n < 10^d /\ (d = 1 \/ n >= 10^(d - 1))

\* tok[:14], for a token whose sign, integer part and point fit in 14 characters
Take14(tok) ==
  LET head == (IF tok.neg THEN 1 ELSE 0) + NumDigits(tok.int) + 1
      keep == Min(tok.digits, 14 - head)
  IN  [tok EXCEPT !.frac = tok.frac \div 10^(tok.digits - keep), !.digits = keep]

\* float(tok)
ParseFloat(tok) ==
  IF tok.neg THEN FNeg(DecBig(tok.int, tok.frac, tok.digits))
  ELSE DecBig(tok.int, tok.frac, tok.digits)

Mag(tok) == Tok(TRUE, 0, tok, 5)

LineA == RecordLine(Tok(FALSE, 2458126, 22243, 5), Mag(9398), Tok(FALSE, 0, 29, 4))
LineB == RecordLine(Tok(FALSE, 2458126, 2300049, 7), Mag(9350), Tok(FALSE, 0, 29, 4))
\* noon of 1500-02-29, a day of the Julian calendar only
LineJ == RecordLine(Tok(FALSE, 2268992, 0, 1), Mag(9350), Tok(FALSE, 0, 31, 4))

Lines == {HeaderLine, LineA, LineB, LineJ}

\* jd_to_datetime on the timestamps of Lines, each computed once
Timestamps ==
  UNION { {ParseFloat(Take14(l.ts)), FSub(ParseFloat(Take14(l.ts)), TIME_CRT)}
          : l \in Lines \ {HeaderLine} }
DatetimeTable == { <<j, jd_to_datetime(j)>> : j \in Timestamps }
DatetimeOf(j) ==
  IF \E p \in DatetimeTable : p[1] = j
  THEN (CHOOSE p \in DatetimeTable : p[1] = j)[2]
  ELSE jd_to_datetime(j)

\* What load_data has done so far: the filter, the records parsed, the
\* exception raised, and the last calls of kalman_filter and jd_to_datetime
Loading ==
  [x |-> x, cov |-> cov, parsed |-> <<>>, err |-> "none",
   calls |-> calls, meas |-> meas, ret |-> ret, prev_x |-> prev_x,
   prev_cov |-> prev_cov, nan_fed |-> nan_fed, same |-> same,
   jd |-> jd, dt |-> dt, prev_jd |-> prev_jd, prev_dt |-> prev_dt,
   jd_calls |-> jd_calls]

\* self.kalman_filter(mag) inside load_data
LoadFilter(st, mag0) ==
  The({ [st EXCEPT !.x = n.x, !.cov = n.cov, !.ret = n.x, !.meas = mag,
                   !.prev_x = st.x, !.prev_cov = st.cov, !.calls = st.calls + 1,
                   !.nan_fed = (st.nan_fed \/ IsNaN(mag)),
                   !.same = (st.same /\ (st.calls = 0 \/ mag = st.meas))]
        : mag \in {mag0}, n \in {kalman_filter(st.x, st.cov, mag0)} })

\* self.jd_to_datetime(j) inside load_data
LoadDatetime(st, j0) ==
  The({ [st EXCEPT !.jd = j, !.dt = d, !.prev_jd = st.jd, !.prev_dt = st.dt,
                   !.jd_calls = st.jd_calls + 1,
                   !.err = IF DatetimeOK(d) THEN "none" ELSE "ValueError"]
        : j \in {j0}, d \in {DatetimeOf(j0)} })

\* The body of the loop for a line that is no header; an exception leaves the
\* loop with the record not appended
LoadRecord(line, st) ==
  The({ The({ (IF s2.err # "none" THEN s2
               ELSE The({ (IF s3.err # "none" THEN s3
                           ELSE [s3 EXCEPT !.parsed =
                                   Append(s3.parsed,
                                          [ts |-> ts, mag |-> mag, dif |-> dif,
                                           f_mag |-> s1.ret, dt |-> s2.dt,
                                           dt_cor |-> s3.dt])])
                          : s3 \in {LoadDatetime(s2, FSub(ts, TIME_CRT))} }))
              : s2 \in {LoadDatetime(s1, ts)} })
        : ts \in {ParseFloat(Take14(line.ts))},
          mag \in {ParseFloat(line.mag)},
          dif \in {ParseFloat(line.dif)},
          s1 \in {LoadFilter(st, ParseFloat(line.mag))} })

\* LoadFrom taking the lines last to first, the records kept in file order
RECURSIVE LoadFromReversed(_, _, _)
LoadFromReversed(lines, i, st) ==
  IF i > Len(lines) \/ st.err # "none" THEN st
  ELSE IF lines[Len(lines) + 1 - i].kind = "header" THEN LoadFromReversed(lines, i + 1, st)
  ELSE The({ (IF s2.err # "none" THEN s2
              ELSE LoadFromReversed(lines, i + 1,
                     [s2 EXCEPT !.parsed = <<s2.parsed[Len(s2.parsed)]>> \o st.parsed]))
             : s2 \in {LoadRecord(lines[Len(lines) + 1 - i], st)} })

\* for line in file_data.readlines(), from line i on
RECURSIVE LoadFrom(_, _, _)
LoadFrom(lines, i, st) ==
  IF i > Len(lines) \/ st.err # "none" THEN st
  ELSE IF lines[i].kind = "header" THEN LoadFrom(lines, i + 1, st)
  ELSE The({ LoadFrom(lines, i + 1, s2) : s2 \in {LoadRecord(lines[i], st)} })

\* load_data(): the loop, then parsed_data[0] (IndexError when nothing was
\* parsed), then self.data_stream = parsed_data
load_data ==
  \E st \in {LoadFrom(file, 1, Loading)} :
      /\ x' = st.x
      /\ cov' = st.cov
      /\ calls' = st.calls
      /\ meas' = st.meas
      /\ ret' = st.ret
      /\ prev_x' = st.prev_x
      /\ prev_cov' = st.prev_cov
      /\ nan_fed' = st.nan_fed
      /\ same' = st.same
      /\ jd' = st.jd
      /\ dt' = st.dt
      /\ prev_jd' = st.prev_jd
      /\ prev_dt' = st.prev_dt
      /\ jd_calls' = st.jd_calls
      /\ err' = IF st.err # "none" THEN st.err
                ELSE IF st.parsed = <<>> THEN "IndexError"
                ELSE "none"
      /\ data_stream' = IF st.err = "none" /\ st.parsed # <<>> THEN st.parsed
                        ELSE data_stream
      /\ loads' = loads + 1
      /\ UNCHANGED file

MaxLines == 2
MaxLoads == 3

Files == UNION { [1..n -> Lines] : n \in 0..MaxLines }

InitSeries == \E f \in Files : Constructed(f)

LoadData ==
  /\ loads < MaxLoads
  /\ load_data
  /\ last_op' = "load_data"

\* get_data() with a series loaded
GetDataLoaded ==
  /\ data_stream # <<>>
  /\ last_op' = "get_data"
  /\ err' = "none"
  /\ UNCHANGED <<data_stream, file, loads>>
  /\ UNCHANGED filter_vars
  /\ UNCHANGED jd_vars

\* get_data() with none
GetDataEmpty ==
  /\ data_stream = <<>>
  /\ loads < MaxLoads
  /\ load_data
  /\ last_op' = "get_data"

GetData == GetDataLoaded \/ GetDataEmpty

NextSeries == LoadData \/ GetData

SpecSeries == InitSeries /\ [][NextSeries]_vars

\* The filter of a DataStream just constructed, given mags[i], mags[i + 1], ...
\* by calls of kalman_filter
RECURSIVE ReplayFrom(_, _, _)
ReplayFrom(mags, i, flt) ==
  IF i > Len(mags) THEN flt
  ELSE The({ ReplayFrom(mags, i + 1, n)
             : n \in {kalman_filter(flt.x, flt.cov, mags[i])} })

\* What a fresh filter returns for record i when given the mag of records 1..i only
Replay(recs, i) ==
  ReplayFrom([k \in 1..i |-> recs[k].mag], 1, [x |-> NaN, cov |-> NaN]).x

\* C3: in the series the first load_data of a DataStream builds, the f_mag of
\* record i is what a fresh filter returns when given the mag of records 1..i
\* only, whatever records follow record i.
C3_Causal ==
  (loads = 1 /\ data_stream # <<>>) =>
     \A i \in 1..Len(data_stream) : data_stream[i].f_mag = Replay(data_stream, i)

C3_Witness ==
  /\ loads = 1 /\ Len(data_stream) = 2
  /\ data_stream[1].mag = Mag1 /\ data_stream[2].mag = Mag2
  /\ data_stream[1].f_mag = Mag1
  /\ FLt(Mag1, data_stream[2].f_mag) /\ FLt(data_stream[2].f_mag, Mag2)

\* C10 as stated: every series load_data builds starts from a filter not yet
\* initialised, so the f_mag of its first record is that record's mag.
C10_FreshSeries ==
  data_stream # <<>> => data_stream[1].f_mag = data_stream[1].mag

====
